---- MODULE Spec2Model ----
(***************************************************************************)
(* Model of the Table component of src/src/components/Table/index.tsx:     *)
(* a React class component that renders a DataFrame through a windowed     *)
(* grid (MultiGrid), with per-column style rules, single-column sorting    *)
(* and a CellMeasurerCache.                                                *)
(*                                                                         *)
(* React's lifecycle is modelled by pc:                                    *)
(*   "mount"     constructed, first render pending                         *)
(*   "render"    an update (new props or setState) is pending its render   *)
(*   "didUpdate" the update was rendered, componentDidUpdate is pending    *)
(*   "idle"      quiescent, waiting for the next external event            *)
(*   "crashed"   an exception left the component (it is unmounted)         *)
(* Column and row indices are 0-based as in the source; the sequences      *)
(* that hold fields and values are 1-based, hence the +1 where indexed.    *)
(***************************************************************************)
EXTENDS Integers, Sequences, FiniteSets, TLC

VARIABLES
  props,        \* this.props
  state,        \* this.state: sortBy, sortDirection, data
  renderer,     \* this.renderer: ColumnRenderInfo[]
  measurer,     \* this.measurer: CellMeasurerCache, grid position -> measurement
  scrollToTop,  \* this.scrollToTop
  pc,           \* position in React's update cycle
  prevProps,    \* componentDidUpdate's prevProps of the update in progress
  prevState,    \* componentDidUpdate's prevState of the update in progress
  view          \* what the last render pass produced

vars == <<props, state, renderer, measurer, scrollToTop, pc, prevProps, prevState, view>>

----------------------------------------------------------------------------
(* Bounds *)

\* how many props one parent update may change at once
MaxChanged == 1

----------------------------------------------------------------------------
(* JavaScript values *)

\* State.sortBy before the first sort: the field is absent
Undefined == -2
\* State.sortBy after doSort cleared it
Null == -1
\* the '' that cellRenderer hands to the header builder as value
EmptyValue == -1

\* a number as JavaScript's width / n yields it, kept exact
RECURSIVE GCD(_, _)
GCD(a, b) == IF b = 0 THEN a ELSE GCD(b, a % b)

Quotient(n, d) == [num |-> n \div GCD(n, d), den |-> d \div GCD(n, d)]

\* Math.max(width / n, minColumnWidth)
MathMax(width, n, minColumnWidth) ==
  IF width >= minColumnWidth * n THEN Quotient(width, n) ELSE Quotient(minColumnWidth, 1)

----------------------------------------------------------------------------
(* Inputs: data frames, style lists, configuration values *)

Field(name, values) == [name |-> name, values |-> values]

\* ref is the object's identity: data !== prevProps.data compares it
Frame(ref, fields, length) == [ref |-> ref, fields |-> fields, length |-> length]

WeatherFields == << Field("temp_avg", <<2, 1>>), Field("temp_max", <<5, 7>>) >>

\* two frames of equal content and different identity (a refresh), a frame
\* with another column and row count, and the empty frame (fields: [])
DataFrames ==
  { Frame(1, WeatherFields, 2),
    Frame(2, WeatherFields, 2),
    Frame(3, << Field("status", <<3, 1, 2>>) >>, 3),
    Frame(4, << >>, 0) }

Rule(pattern, alias) == [pattern |-> pattern, alias |-> alias]

\* present = FALSE is a styles prop that is null or undefined
StyleList(ref, present, rules) == [ref |-> ref, present |-> present, rules |-> rules]

StyleLists ==
  { StyleList(1, TRUE, << >>),
    StyleList(2, TRUE, << Rule("temp_.*", "Temperature"), Rule("temp_max", "Max"),
                          Rule("status", "") >>),
    StyleList(3, TRUE, << Rule("(", ""), Rule("status", "State") >>),
    StyleList(4, FALSE, << >>) }

Widths == {200, 501}
\* defaultProps.minColumnWidth
MinColumnWidths == {150}
FixedColumnCounts == {0, 1}

PropsSpace ==
  [ data : DataFrames, styles : StyleLists, showHeader : BOOLEAN, fixedHeader : BOOLEAN,
    fixedColumns : FixedColumnCounts, width : Widths, minColumnWidth : MinColumnWidths ]

PropNames == {"data", "styles", "showHeader", "fixedHeader", "fixedColumns", "width", "minColumnWidth"}

ChangedProps(p, q) ==
  { n \in PropNames :
      CASE n = "data" -> p.data.ref # q.data.ref
        [] n = "styles" -> p.styles.ref # q.styles.ref
        [] n = "showHeader" -> p.showHeader # q.showHeader
        [] n = "fixedHeader" -> p.fixedHeader # q.fixedHeader
        [] n = "fixedColumns" -> p.fixedColumns # q.fixedColumns
        [] n = "width" -> p.width # q.width
        [] OTHER -> p.minColumnWidth # q.minColumnWidth }

----------------------------------------------------------------------------
(* Library functions the component calls *)

\* stringToJsRegex(pattern) throws on a pattern that is no regular expression
PatternCompiles(pattern) == pattern # "("

\* title.match(stringToJsRegex(pattern)); a pattern without slashes is anchored
PatternMatches(pattern, title) ==
  CASE pattern = "temp_.*" -> title \in {"temp_avg", "temp_max"}
    [] pattern = "temp_max" -> title = "temp_max"
    [] pattern = "status" -> title = "status"
    [] OTHER -> FALSE

\* title.replace(regex, alias) of an anchored match replaces the whole title
Replace(title, pattern, alias) == alias

RECURSIVE InsertIndex(_, _, _)
InsertIndex(index, i, values) ==
  IF index = << >> THEN << i >>
  ELSE IF values[Head(index)] <= values[i]
       THEN << Head(index) >> \o InsertIndex(Tail(index), i, values)
       ELSE << i >> \o index

\* index.sort(compare) with the numeric compare: ascending and stable
RECURSIVE SortedIndex(_, _)
SortedIndex(n, values) ==
  IF n = 0 THEN << >> ELSE InsertIndex(SortedIndex(n - 1, values), n, values)

Reverse(s) == [i \in 1..Len(s) |-> s[Len(s) + 1 - i]]

\* the object sortDataFrame returns when it sorts is a new one
SortedRef == 0

\* sortDataFrame(data, sortIndex, reverse): data itself when data.fields[sortIndex]
\* is no field, else a copy whose values are read through the sorted index
sortDataFrame(data, sortIndex, reverse) ==
  IF sortIndex < 0 \/ sortIndex >= Len(data.fields) THEN data
  ELSE LET asc == SortedIndex(data.length, data.fields[sortIndex + 1].values)
           index == IF reverse THEN Reverse(asc) ELSE asc
       IN  Frame(SortedRef,
                 [f \in 1..Len(data.fields) |->
                    Field(data.fields[f].name,
                          [i \in 1..data.length |-> data.fields[f].values[index[i]]])],
                 data.length)

\* getCellBuilder(col.config, style, theme): the builder bound to the style
getCellBuilder(style) == IF style = 0 THEN "default" ELSE "styled"

\* simpleCellBuilder
simpleCellBuilder == "simple"

----------------------------------------------------------------------------
(* Table: pure parts *)

\* the loop of initColumns with the rules read from the last one down, so
\* that the last rule that matches is the one kept
RECURSIVE FindStyleLastMatch(_, _, _)
FindStyleLastMatch(title, rules, i) ==
  LET j == Len(rules) + 1 - i
  IN  IF i > Len(rules) THEN [threw |-> FALSE, style |-> 0]
      ELSE IF ~PatternCompiles(rules[j].pattern) THEN [threw |-> TRUE, style |-> 0]
      ELSE IF PatternMatches(rules[j].pattern, title) THEN [threw |-> FALSE, style |-> j]
      ELSE FindStyleLastMatch(title, rules, i + 1)

\* the loop of initColumns over the style rules for one column title:
\* the index of the first rule that matches (0: none), or the exception
\* stringToJsRegex raised before any rule matched
RECURSIVE FindStyle(_, _, _)
FindStyle(title, rules, i) ==
  IF i > Len(rules) THEN [threw |-> FALSE, style |-> 0]
  ELSE IF ~PatternCompiles(rules[i].pattern) THEN [threw |-> TRUE, style |-> 0]
  ELSE IF PatternMatches(rules[i].pattern, title) THEN [threw |-> FALSE, style |-> i]
  ELSE FindStyle(title, rules, i + 1)

\* initColumns returns [] without looking at the rules
NoColumns(p) == Len(p.data.fields) = 0 \/ ~p.styles.present

\* initColumns(props) does not return: a rule's pattern did not compile
initColumnsThrows(p) ==
  /\ ~NoColumns(p)
  /\ \E c \in 1..Len(p.data.fields) : FindStyle(p.data.fields[c].name, p.styles.rules, 1).threw

\* initColumns(props), when it returns
initColumns(p) ==
  IF NoColumns(p) THEN << >>
  ELSE LET columnWidth == MathMax(p.width, Len(p.data.fields), p.minColumnWidth)
       IN  [c \in 1..Len(p.data.fields) |->
              LET name == p.data.fields[c].name
                  found == FindStyle(name, p.styles.rules, 1).style
                  title == IF found # 0 /\ p.styles.rules[found].alias # ""
                           THEN Replace(name, p.styles.rules[found].pattern, p.styles.rules[found].alias)
                           ELSE name
              IN  [header |-> title, width |-> columnWidth, builder |-> getCellBuilder(found)]]

\* doSort that toggles an ascending column back to descending
doSortNeverClears(st, columnIndex) ==
  IF st.sortBy # columnIndex
  THEN [st EXCEPT !.sortBy = columnIndex, !.sortDirection = "DESC"]
  ELSE IF st.sortDirection = "DESC"
       THEN [st EXCEPT !.sortDirection = "ASC"]
       ELSE [st EXCEPT !.sortDirection = "DESC"]

\* doSort that keeps the direction when another column is chosen
doSortKeepsDirection(st, columnIndex) ==
  IF st.sortBy # columnIndex
  THEN [st EXCEPT !.sortBy = columnIndex,
                  !.sortDirection = IF st.sortDirection = "undefined" THEN "DESC" ELSE st.sortDirection]
  ELSE IF st.sortDirection = "DESC"
       THEN [st EXCEPT !.sortDirection = "ASC"]
       ELSE [st EXCEPT !.sortBy = Null]

\* doSort(columnIndex): the sortBy and sortDirection it hands to setState
doSort(st, columnIndex) ==
  IF st.sortBy # columnIndex
  THEN [st EXCEPT !.sortBy = columnIndex, !.sortDirection = "DESC"]
  ELSE IF st.sortDirection = "DESC"
       THEN [st EXCEPT !.sortDirection = "ASC"]
       ELSE [st EXCEPT !.sortBy = Null]

\* getCellRef that takes the first grid row for the header, shown or not
getCellRefIgnoresShowHeader(p, rowIndex, columnIndex) ==
  [column |-> columnIndex, row |-> rowIndex - 1]

\* getCellRef(rowIndex, columnIndex)
getCellRef(p, rowIndex, columnIndex) ==
  LET rowOffset == IF p.showHeader THEN -1 ELSE 0
  IN  [column |-> columnIndex, row |-> rowIndex + rowOffset]

\* an onCellClick that sorts whatever cell was activated
onCellClickAnyRow(p, st, rowIndex, columnIndex) ==
  doSort(st, getCellRef(p, rowIndex, columnIndex).column)

\* onCellClick(rowIndex, columnIndex): the state after it
onCellClick(p, st, rowIndex, columnIndex) ==
  LET ref == getCellRef(p, rowIndex, columnIndex)
  IN  IF ref.row < 0 THEN doSort(st, ref.column) ELSE st

\* getTableCellBuilder(column)
getTableCellBuilder(rend, column) ==
  IF column + 1 \in DOMAIN rend THEN rend[column + 1].builder ELSE simpleCellBuilder

\* cellRenderer(props) with headerBuilder: the cell drawn at a grid position
cellRenderer(p, st, rend, rowIndex, columnIndex) ==
  LET ref == getCellRef(p, rowIndex, columnIndex)
      isHeader == ref.row < 0
      col == st.data.fields[ref.column + 1]
  IN  IF isHeader
      THEN [ header |-> TRUE, ref |-> ref, value |-> EmptyValue, text |-> col.name,
             indicator |-> IF st.sortBy = ref.column THEN st.sortDirection ELSE "none",
             builder |-> "headerBuilder" ]
      ELSE [ header |-> FALSE, ref |-> ref, value |-> col.values[ref.row + 1], text |-> "",
             indicator |-> "none", builder |-> getTableCellBuilder(rend, ref.column) ]

\* getColumnWidth(col) reads this.renderer[col.index].width: it throws when
\* the renderer holds no entry for the column
getColumnWidthThrows(rend, index) == index + 1 \notin DOMAIN rend

getColumnWidth(rend, index) == rend[index + 1].width

\* render() returns the placeholder
MissingFields(st) == Len(st.data.fields) = 0

\* a render() that never forces the scroll row
scrollToRowNeverForced(top) == -1

\* const scrollToRow = this.scrollToTop ? 1 : -1
scrollToRow(top) == IF top THEN 1 ELSE -1

GridCells(rowCount, columnCount) == (0..(rowCount - 1)) \X (0..(columnCount - 1))

Min(a, b) == IF a < b THEN a ELSE b

EmptyCache == [k \in {} |-> 0]

NoView ==
  [ kind |-> "none", scrollToRow |-> -1, columnCount |-> 0, rowCount |-> 0,
    fixedColumnCount |-> 0, fixedRowCount |-> 0, columnWidth |-> << >>,
    cells |-> EmptyCache, reused |-> {} ]

Placeholder == [NoView EXCEPT !.kind = "placeholder"]

\* the pass died in getColumnWidth: nothing is shown
ErrorView == [NoView EXCEPT !.kind = "error"]

\* the MultiGrid that render() returns, with every cell of the grid drawn;
\* reused are the positions whose measurement the cache already held
GridView(p, st, rend, cache, top) ==
  LET columnCount == Len(st.data.fields)
      rowCount == st.data.length + (IF p.showHeader THEN 1 ELSE 0)
  IN  [ kind |-> "grid",
        scrollToRow |-> scrollToRow(top),
        columnCount |-> columnCount,
        rowCount |-> rowCount,
        fixedColumnCount |-> Min(p.fixedColumns, columnCount),
        fixedRowCount |-> IF p.showHeader /\ p.fixedHeader THEN 1 ELSE 0,
        columnWidth |-> [c \in 1..columnCount |-> getColumnWidth(rend, c - 1)],
        cells |-> [k \in GridCells(rowCount, columnCount) |-> cellRenderer(p, st, rend, k[1], k[2])],
        reused |-> GridCells(rowCount, columnCount) \cap DOMAIN cache ]

\* CellMeasurer: a drawn cell whose position the cache does not hold is
\* measured and the result stored; the model keeps what was measured
Measured(v, cache) ==
  [k \in DOMAIN cache \cup DOMAIN v.cells |->
     IF k \in DOMAIN cache THEN cache[k]
     ELSE [text |-> v.cells[k].text, value |-> v.cells[k].value]]

\* the conditions componentDidUpdate computes
DataChanged(p, prev) == p.data.ref # prev.data.ref

\* configsChanged without the comparison of fixedColumns
ConfigsChangedForgetsFixedColumns(p, prev) ==
  \/ p.showHeader # prev.showHeader
  \/ p.fixedHeader # prev.fixedHeader

ConfigsChanged(p, prev) ==
  \/ p.showHeader # prev.showHeader
  \/ p.fixedColumns # prev.fixedColumns
  \/ p.fixedHeader # prev.fixedHeader

StylesChanged(p, prev) == p.styles.ref # prev.styles.ref

\* the sort comparison without sortDirection
SortChangedForgetsDirection(st, prevSt) == st.sortBy # prevSt.sortBy

SortChanged(st, prevSt) ==
  st.sortBy # prevSt.sortBy \/ st.sortDirection # prevSt.sortDirection

ClearNeeded(p, prev) == DataChanged(p, prev) \/ ConfigsChanged(p, prev)

\* a componentDidUpdate that rebuilds the columns on every update
RebuildAlways(p, prev) == TRUE

RebuildNeeded(p, prev) == DataChanged(p, prev) \/ StylesChanged(p, prev)

\* a componentDidUpdate that sorts and sets the state on every update
ResortAlways(p, prev, st, prevSt) == TRUE

ResortNeeded(p, prev, st, prevSt) == DataChanged(p, prev) \/ SortChanged(st, prevSt)

----------------------------------------------------------------------------
(* Table: the component's life *)

\* constructor(props), for every props the parent may mount with
Init ==
  \E p \in PropsSpace :
    /\ props = p
    /\ state = [sortBy |-> Undefined, sortDirection |-> "undefined", data |-> p.data]
    /\ renderer = IF initColumnsThrows(p) THEN << >> ELSE initColumns(p)
    /\ measurer = EmptyCache
    /\ scrollToTop = FALSE
    /\ pc = IF initColumnsThrows(p) THEN "crashed" ELSE "mount"
    /\ prevProps = p
    /\ prevState = state
    /\ view = NoView

\* the parent renders the Table again, with up to MaxChanged props replaced
ReceiveProps ==
  /\ pc = "idle"
  /\ \E p \in PropsSpace :
       /\ Cardinality(ChangedProps(p, props)) <= MaxChanged
       /\ props' = p
  /\ prevProps' = props
  /\ prevState' = state
  /\ pc' = "render"
  /\ UNCHANGED <<state, renderer, measurer, scrollToTop, view>>

\* onCellClick(rowIndex, columnIndex), from the onClick of a drawn header cell
OnCellClick ==
  /\ pc = "idle"
  /\ \E k \in DOMAIN view.cells :
       /\ view.cells[k].builder = "headerBuilder"
       /\ state' = onCellClick(props, state, k[1], k[2])
       /\ pc' = IF state' # state THEN "render" ELSE "idle"
  /\ prevProps' = props
  /\ prevState' = state
  /\ UNCHANGED <<props, renderer, measurer, scrollToTop, view>>

\* render(), and the MultiGrid drawing what it returned
Render ==
  /\ pc \in {"mount", "render"}
  /\ IF MissingFields(state)
     THEN /\ view' = Placeholder
          /\ pc' = IF pc = "mount" THEN "idle" ELSE "didUpdate"
          /\ UNCHANGED <<measurer, scrollToTop>>
     ELSE /\ scrollToTop' = FALSE
          /\ IF \E c \in 0..(Len(state.data.fields) - 1) : getColumnWidthThrows(renderer, c)
             THEN /\ view' = ErrorView
                  /\ pc' = "crashed"
                  /\ UNCHANGED measurer
             ELSE /\ view' = GridView(props, state, renderer, measurer, scrollToTop)
                  /\ measurer' = Measured(view', measurer)
                  /\ pc' = IF pc = "mount" THEN "idle" ELSE "didUpdate"
  /\ UNCHANGED <<props, state, renderer, prevProps, prevState>>

\* componentDidUpdate(prevProps, prevState)
ComponentDidUpdate ==
  /\ pc = "didUpdate"
  /\ LET clear == ClearNeeded(props, prevProps)
         rebuild == RebuildNeeded(props, prevProps)
         resort == ResortNeeded(props, prevProps, state, prevState)
     IN  /\ measurer' = IF clear THEN EmptyCache ELSE measurer
         /\ IF rebuild /\ initColumnsThrows(props)
            THEN /\ pc' = "crashed"
                 /\ UNCHANGED <<renderer, scrollToTop, state>>
            ELSE /\ renderer' = IF rebuild THEN initColumns(props) ELSE renderer
                 /\ scrollToTop' = IF resort THEN TRUE ELSE scrollToTop
                 /\ state' = IF resort
                             THEN [state EXCEPT !.data =
                                     sortDataFrame(props.data, state.sortBy, state.sortDirection = "DESC")]
                             ELSE state
                 /\ pc' = IF resort THEN "render" ELSE "idle"
  /\ prevProps' = props
  /\ prevState' = state
  /\ UNCHANGED <<props, view>>

Next == ReceiveProps \/ OnCellClick \/ Render \/ ComponentDidUpdate

Spec == Init /\ [][Next]_vars

\* React runs a pending render and the componentDidUpdate after it to the
\* end, synchronously; when the parent or the user acts next is open
FairSpec == Spec /\ WF_vars(Render) /\ WF_vars(ComponentDidUpdate)

----------------------------------------------------------------------------
(* Vocabulary of the properties *)

\* the column indices a header can be activated for
ColumnIndices == UNION { 0..(Len(d.fields) - 1) : d \in DataFrames }

\* the grid rows a frame can fill, the header row included
GridRowIndices == UNION { 0..d.length : d \in DataFrames }

\* the sort status of column c
SortStatus(st, c) ==
  IF st.sortBy # c THEN "Unsorted"
  ELSE IF st.sortDirection = "DESC" THEN "Descending"
  ELSE IF st.sortDirection = "ASC" THEN "Ascending"
  ELSE "Invalid"

SortedColumns(st) == { c \in ColumnIndices : SortStatus(st, c) # "Unsorted" }

\* a render pass of an update has completed and nothing has run since
JustRendered == pc = "didUpdate"

\* this step is a render pass that completes
RenderPass == pc \in {"mount", "render"} /\ pc' \in {"didUpdate", "idle"}

\* what the update in progress left as it was, compared as componentDidUpdate
\* compares props with prevProps and state with prevState
SameData == props.data.ref = prevProps.data.ref
SameStyles == props.styles.ref = prevProps.styles.ref
SameConfigs ==
  /\ props.showHeader = prevProps.showHeader
  /\ props.fixedHeader = prevProps.fixedHeader
  /\ props.fixedColumns = prevProps.fixedColumns
SameSort ==
  /\ state.sortBy = prevState.sortBy
  /\ state.sortDirection = prevState.sortDirection

----------------------------------------------------------------------------
(* C1: from a state where no column is sorted, repeated activations of   *)
(* column c give Descending, Ascending, Unsorted, Descending, ...: an    *)
(* activation of a column that is not the sorted one gives (c,           *)
(* Descending), of a Descending column gives (c, Ascending), of an       *)
(* Ascending column clears the sorted column. Stated of doSort in every  *)
(* reachable state, and of every update that a header activation made.   *)
C1_SortCycle ==
  /\ \A c \in ColumnIndices :
       LET s1 == doSort(state, c)
           s2 == doSort(s1, c)
           s3 == doSort(s2, c)
           s4 == doSort(s3, c)
       IN  /\ SortStatus(state, c) = "Unsorted" =>
                /\ s1.sortBy = c /\ s1.sortDirection = "DESC"
                /\ SortStatus(s2, c) = "Ascending"
                /\ SortedColumns(s3) = {}
                /\ s4.sortBy = c /\ s4.sortDirection = "DESC"
           /\ SortStatus(state, c) = "Descending" => s1.sortBy = c /\ s1.sortDirection = "ASC"
           /\ SortStatus(state, c) = "Ascending" => SortedColumns(s1) = {}
           /\ SortStatus(state, c) # "Invalid"
  /\ (pc \in {"render", "didUpdate"} /\ ~SameSort) =>
       \E c \in ColumnIndices :
         \/ SortStatus(prevState, c) = "Unsorted" /\ SortStatus(state, c) = "Descending"
         \/ SortStatus(prevState, c) = "Descending" /\ SortStatus(state, c) = "Ascending"
         \/ SortStatus(prevState, c) = "Ascending" /\ SortedColumns(state) = {}

\* the third activation of column 0 has cleared the sort
C1_Witness ==
  /\ pc = "didUpdate"
  /\ prevState.sortBy = 0 /\ prevState.sortDirection = "ASC"
  /\ state.sortBy = Null

(* C2: at most one column is sorted, and activating column d while        *)
(* another column c is sorted, Descending or Ascending, gives (d,         *)
(* Descending) and leaves c unsorted.                                     *)
C2_SingleSortedColumn ==
  /\ Cardinality(SortedColumns(state)) <= 1
  /\ \A c \in SortedColumns(state) : \A d \in ColumnIndices \ {c} :
       LET s1 == doSort(state, d)
       IN  /\ s1.sortBy = d /\ s1.sortDirection = "DESC"
           /\ SortedColumns(s1) = {d}
  /\ (pc \in {"render", "didUpdate"} /\ state.sortBy # prevState.sortBy
        /\ state.sortBy \in ColumnIndices) =>
       /\ state.sortDirection = "DESC"
       /\ SortedColumns(state) = {state.sortBy}

\* column 1 was activated while column 0 was sorted ascending
C2_Witness ==
  /\ pc = "didUpdate"
  /\ prevState.sortBy = 0 /\ prevState.sortDirection = "ASC"
  /\ state.sortBy = 1 /\ state.sortDirection = "DESC"

(* C3: once the update of the last event has settled, state.data is       *)
(* sortDataFrame of the data prop under the current sort state; when no   *)
(* column is sorted it is the data prop itself, in its order.             *)
C3_RenderedDataIsSortedProp ==
  pc = "idle" =>
    /\ state.data = sortDataFrame(props.data, state.sortBy, state.sortDirection = "DESC")
    /\ SortedColumns(state) = {} => state.data = props.data

\* settled with column 0 ascending, which is not the order of the data prop
C3_Witness ==
  /\ pc = "idle"
  /\ state.sortBy = 0 /\ state.sortDirection = "ASC"
  /\ state.data.fields # props.data.fields

(* C4: the componentDidUpdate of an update that replaced the dataset or   *)
(* changed showHeader, fixedHeader or fixedColumns leaves no measurement  *)
(* in the cache: every entry written before it is gone.                   *)
C4_InvalidationIsWholesale ==
  [][(pc = "didUpdate" /\ (~SameData \/ ~SameConfigs)) => measurer' = EmptyCache]_vars

\* a render pass drew a grid on measurements the cache held, and the
\* cache was emptied after it
C4_Witness ==
  /\ pc = "idle"
  /\ view.kind = "grid"
  /\ view.reused # {}
  /\ measurer = EmptyCache

(* C5: no render pass draws the new props of an event while the cache     *)
(* still holds measurements from before the event or the column layout is *)
(* still the one built before it. Stated of the passes that stay on       *)
(* screen, those after which componentDidUpdate sets no state.            *)
C5_NoStaleRenderPass ==
  (JustRendered /\ view.kind = "grid" /\ SameData /\ SameSort) =>
    /\ ~SameConfigs => view.reused = {}
    /\ (~SameStyles /\ ~NoColumns(props) /\ ~initColumnsThrows(props)) =>
         /\ \A c \in 1..view.columnCount : view.columnWidth[c] = initColumns(props)[c].width
         /\ \A k \in DOMAIN view.cells :
              ~view.cells[k].header => view.cells[k].builder = initColumns(props)[k[2] + 1].builder

C7_UnchangedUpdateDoesNothing ==
  [][(pc = "didUpdate" /\ SameData /\ SameStyles /\ SameConfigs /\ SameSort) =>
       /\ renderer' = renderer
       /\ measurer' = measurer
       /\ state' = state
       /\ scrollToTop' = scrollToTop
       /\ pc' = "idle"]_vars

\* settled after a change of width alone: the layout is the one built for
\* the old width, and the measurements are still held
C7_Witness ==
  /\ pc = "idle"
  /\ ~NoColumns(props) /\ ~initColumnsThrows(props)
  /\ renderer # initColumns(props)
  /\ measurer # EmptyCache

(* C8: the componentDidUpdate of an update that replaced only the style   *)
(* list rebuilds the column layout, leaves every measurement as it was,   *)
(* sorts nothing and raises no scroll-to-top request.                     *)
C8_StyleChangeRebuildsOnly ==
  [][(pc = "didUpdate" /\ ~SameStyles /\ SameData /\ SameConfigs /\ SameSort) =>
       /\ renderer' = initColumns(props)
       /\ measurer' = measurer
       /\ state' = state
       /\ scrollToTop' = scrollToTop
       /\ pc' = "idle"]_vars

\* the same, of the style lists whose patterns all compile
C8_CompilingStyleChangeRebuildsOnly ==
  [][(pc = "didUpdate" /\ ~SameStyles /\ SameData /\ SameConfigs /\ SameSort
        /\ ~initColumnsThrows(props)) =>
       /\ renderer' = initColumns(props)
       /\ measurer' = measurer
       /\ state' = state
       /\ scrollToTop' = scrollToTop
       /\ pc' = "idle"]_vars

(* C9: getCellRef(r, c) is column c and row r - 1 when showHeader is true,*)
(* row r when it is false; a cell is drawn by headerBuilder, with no data *)
(* value fetched, exactly when the mapped row is < 0.                     *)
C9_CoordinateMapping ==
  /\ \A r \in GridRowIndices : \A c \in ColumnIndices :
       getCellRef(props, r, c) = [column |-> c, row |-> IF props.showHeader THEN r - 1 ELSE r]
  /\ (pc \in {"didUpdate", "idle"}) =>
       \A k \in DOMAIN view.cells :
         LET cell == view.cells[k]
             row == IF props.showHeader THEN k[1] - 1 ELSE k[1]
         IN  /\ cell.ref = [column |-> k[2], row |-> row]
             /\ cell.header <=> row < 0
             /\ cell.header => cell.builder = "headerBuilder" /\ cell.value = EmptyValue
             /\ ~cell.header =>
                  /\ cell.builder # "headerBuilder"
                  /\ cell.value = state.data.fields[k[2] + 1].values[row + 1]

\* a grid drawn without header: its first row is data row 0
C9_Witness ==
  /\ pc = "idle"
  /\ ~props.showHeader
  /\ <<0, 0>> \in DOMAIN view.cells
  /\ ~view.cells[<<0, 0>>].header
  /\ view.cells[<<0, 0>>].ref.row = 0

(* C10: at every render pass of a non-empty dataset the width reported    *)
(* for every column is max(W / N, M), W the current width prop, N the     *)
(* number of columns drawn and M the current minColumnWidth.              *)
C10_ColumnWidthFollowsViewport ==
  (pc \in {"didUpdate", "idle"} /\ view.kind = "grid") =>
    \A c \in 1..view.columnCount :
      view.columnWidth[c] = MathMax(props.width, view.columnCount, props.minColumnWidth)

(* C11: a rule whose pattern does not compile is skipped and no error     *)
(* leaves the layout build: neither the constructor nor componentDidUpdate*)
(* ends in an exception of initColumns (the only exception that unmounts  *)
(* the component without a render pass having failed).                    *)
C11_MalformedPatternIsSkipped ==
  pc = "crashed" => view.kind = "error"

(* C12: for every column of the layout built from the current props, the  *)
(* style is the rule of smallest index whose pattern matches the column   *)
(* name (none if none matches), the title is that rule's alias if it has  *)
(* one, else the column name, and the same column resolved alone, in a    *)
(* frame of its own, gets the same title and builder. After the           *)
(* constructor the layout held is that one.                               *)
C12_FirstMatchWins ==
  (~NoColumns(props) /\ ~initColumnsThrows(props)) =>
    /\ \A c \in 1..Len(props.data.fields) :
         LET name == props.data.fields[c].name
             rules == props.styles.rules
             matching == { i \in 1..Len(rules) : PatternMatches(rules[i].pattern, name) }
             info == initColumns(props)[c]
             alone == initColumns([props EXCEPT !.data.fields = << props.data.fields[c] >>])[1]
         IN  /\ matching = {} => info.header = name /\ info.builder = getCellBuilder(0)
             /\ matching # {} =>
                  LET first == CHOOSE i \in matching : \A j \in matching : i <= j
                  IN  /\ info.builder = getCellBuilder(first)
                      /\ info.header = IF rules[first].alias # "" THEN rules[first].alias ELSE name
             /\ alone.header = info.header /\ alone.builder = info.builder
    /\ pc = "mount" => renderer = initColumns(props)

\* a layout was built and drawn for temp_max, which the rules temp_.* and
\* temp_max both match: its title is the alias of the first
C12_Witness ==
  /\ pc = "idle"
  /\ props.styles.ref = 2 /\ Len(props.data.fields) = 2
  /\ renderer = initColumns(props)
  /\ renderer[2].header = "Temperature"
  /\ view.kind = "grid"

(* C13: a header cell drawn for column c shows the display title that the *)
(* column layout resolves for c: the alias of the matching rule when it   *)
(* has one, the column name otherwise. Stated of settled components,      *)
(* whose drawn dataset has the columns of the data prop.                  *)
C13_HeaderShowsDisplayTitle ==
  (pc = "idle" /\ view.kind = "grid" /\ ~NoColumns(props) /\ ~initColumnsThrows(props)) =>
    \A k \in DOMAIN view.cells :
      view.cells[k].header => view.cells[k].text = initColumns(props)[k[2] + 1].header

(* C14: with an empty dataset the render output is the placeholder, and   *)
(* the update that delivered the empty dataset does no work: its          *)
(* componentDidUpdate touches no measurement, assigns no rendered data,   *)
(* raises no scroll request and causes no further update.                 *)
C14_EmptyDatasetDoesNoWork ==
  [][/\ (RenderPass /\ MissingFields(state)) => view' = Placeholder
     /\ (pc = "didUpdate" /\ ~SameData /\ Len(props.data.fields) = 0) =>
          /\ measurer' = measurer
          /\ state' = state
          /\ scrollToTop' = scrollToTop
          /\ pc' = "idle"]_vars

(* C15: a measurement that a render pass reuses for a grid position was   *)
(* taken of the cell the pass draws there. Stated of the passes of        *)
(* updates that changed neither the dataset nor showHeader, fixedHeader   *)
(* or fixedColumns: those after a header activation and its re-sort.      *)
C15_NoStaleMeasurement ==
  (JustRendered /\ view.kind = "grid" /\ SameData /\ SameConfigs) =>
    \A k \in view.reused :
      /\ measurer[k].value = view.cells[k].value
      /\ measurer[k].text = view.cells[k].text

(* C16: once an event is processed and the component is settled, the grid *)
(* on screen was drawn with the column layout the component holds: the    *)
(* widths and the cell builders of the last render pass are those of      *)
(* this.renderer.                                                         *)
C16_ShownCellsUseCurrentLayout ==
  (pc = "idle" /\ view.kind = "grid") =>
    /\ Len(renderer) = view.columnCount
    /\ \A c \in 1..Min(view.columnCount, Len(renderer)) :
         view.columnWidth[c] = renderer[c].width
    /\ \A k \in DOMAIN view.cells :
         ~view.cells[k].header => view.cells[k].builder = getTableCellBuilder(renderer, k[2])

(* C17: the row a render pass forces the grid to scroll to is the grid    *)
(* row of the first data row, the one getCellRef maps to data row 0.      *)
C17_ForcedRowIsFirstDataRow ==
  (JustRendered /\ view.kind = "grid" /\ view.scrollToRow # -1) =>
    getCellRef(props, view.scrollToRow, 0).row = 0

(* C18: whenever render() is about to draw the grid, this.renderer holds  *)
(* an entry for every column of the rendered dataset, so that no width    *)
(* lookup fails.                                                          *)
C18_EveryColumnHasRenderInfo ==
  (pc \in {"mount", "render"} /\ ~MissingFields(state)) =>
    \A c \in 0..(Len(state.data.fields) - 1) : ~getColumnWidthThrows(renderer, c)

(* C19: the sort state changes only in a step that is the activation of a *)
(* header cell, a drawn cell whose mapped row is < 0, and then by doSort  *)
(* of its column; new props of any kind, render passes and                *)
(* componentDidUpdate with its re-sort leave it as it is. onCellClick of  *)
(* a grid position whose mapped row is >= 0 returns the state unchanged,  *)
(* and with showHeader false every position is mapped to a row >= 0.      *)
C19_SortStateOwnedByHeaderActivation ==
  /\ [][~(state'.sortBy = state.sortBy /\ state'.sortDirection = state.sortDirection) =>
          /\ pc = "idle" /\ props' = props
          /\ \E k \in DOMAIN view.cells :
               /\ getCellRef(props, k[1], k[2]).row < 0
               /\ state' = doSort(state, k[2])]_vars
  /\ [](\A r \in GridRowIndices : \A c \in ColumnIndices :
          /\ getCellRef(props, r, c).row >= 0 => onCellClick(props, state, r, c) = state
          /\ ~props.showHeader => getCellRef(props, r, c).row >= 0)

\* column 1 was sorted ascending by two activations of its header, the
\* header was hidden afterwards and the update has settled
C19_Witness ==
  /\ pc = "idle"
  /\ ~props.showHeader
  /\ view.kind = "grid"
  /\ state.sortBy = 1 /\ state.sortDirection = "ASC"

\* an update is in progress
Updating == pc \in {"mount", "render", "didUpdate"}

\* the component is quiescent, or an exception has unmounted it
Quiescent == pc \in {"idle", "crashed"}

\* the update in progress is the one that componentDidUpdate's own
\* setState({data}) caused: no prop and no sort parameter differs
FollowUp == props = prevProps /\ SameSort

\* the steps of an update: only the update of an event sets the state in
\* componentDidUpdate, and what it causes is a follow-up update; a render
\* pass keeps what componentDidUpdate compares; the componentDidUpdate of
\* a follow-up update sets no state and ends the cycle
AtMostOneFollowUp ==
  /\ (pc = "didUpdate" /\ pc' = "render") =>
       /\ ~FollowUp
       /\ FollowUp'
  /\ (pc = "render" /\ pc' = "didUpdate") =>
       UNCHANGED <<props, prevProps, state, prevState>>
  /\ (pc = "didUpdate" /\ FollowUp) =>
       /\ state' = state
       /\ Quiescent'

(* C20: every event leads to quiescence. A componentDidUpdate that sets   *)
(* the state does so in an update that changed the dataset or the sort    *)
(* state, and the update it causes starts with equal props and sort       *)
(* state; the render pass of an update changes none of them; the          *)
(* componentDidUpdate of such a follow-up update sets no state and ends   *)
(* the cycle. Hence an update in progress always ends, after at most one  *)
(* follow-up update.                                                      *)
C20_EveryEventSettles ==
  /\ [][AtMostOneFollowUp]_vars
  /\ Updating ~> Quiescent

\* the follow-up update of a re-sort has been rendered: its
\* componentDidUpdate is the one that must set no state
C20_Witness ==
  /\ pc = "didUpdate"
  /\ FollowUp
  /\ state.data # prevState.data
  /\ state.data.ref = SortedRef

====
